---------------------------- MODULE Spec2Model ----------------------------
(* Session store of src/hooks/useAuth.tsx (the useAuth hook): the         *)
(* (user, session, profile, loading) state, the initial session            *)
(* retrieval, the auth-change callback, the deferred profile fetches and   *)
(* the public operations signIn / signUp / signOut; and the notification   *)
(* handler of src/components/NotificationHandler.tsx.                      *)
(*                                                                         *)
(* One action is one scheduler turn of the single-threaded event loop: a   *)
(* callback or the continuation of an async function after an await, run   *)
(* to its next await.  The Backend Client is the environment: each of its  *)
(* requests ends with a value ("ok"), an error value ("error") or a raised *)
(* exception ("raise").                                                    *)
EXTENDS Integers, Sequences, FiniteSets, TLC

(* ------------------------------ bounds --------------------------------- *)
MaxEvents == 1      \* auth-change events delivered to the callback
MaxCalls  == 1      \* calls of the public operations signIn/signUp/signOut
MaxRows   == 1      \* rows a profile query returns at most
MaxNotifs == 2      \* entries of a notification snapshot
MaxCommands == 2    \* mark-as-read commands issued through the handler

(* --------------------------- value domains ----------------------------- *)
Null == [isNull |-> TRUE]

UserIds == {"u1", "u2"}
Tokens  == {"t1"}

\* User objects of the backend (id is what the store reads).
Users == [id : UserIds]

\* Session objects: opaque credential plus the user it proves.
Sessions == [user : Users, token : Tokens]

Outcomes == {"ok", "error", "raise"}

\* Rows of the profiles table as the query returns them for .eq('id', userId).
\* role is an unchecked string ("owner" is outside the declared enum),
\* secret_number may be SQL NULL.
DbNull  == "NULL"
RowsFor(userId) ==
    {[id |-> userId, role |-> "admin", secret_number |-> "s1"],
     [id |-> userId, role |-> "owner", secret_number |-> DbNull]}

\* Result sets of the query: sequences of at most MaxRows rows.
DataFor(userId) ==
    UNION {[1..n -> RowsFor(userId)] : n \in 0..MaxRows}

VARIABLES
    user,        \* useState<User | null>
    session,     \* useState<Session | null>
    profile,     \* useState<Profile | null>
    loading,     \* useState(true)
    initPc,      \* position of initializeAuth
    subscribed,  \* the onAuthStateChange subscription is live
    nEvents,     \* auth-change events delivered so far
    timers,      \* setTimeout(..., 0) callbacks not yet run, FIFO
    inflight,    \* profile queries sent and not yet returned, per user id
    signInPc,    \* position of signIn
    signInLog,   \* Backend Client interactions of the current signIn call
    signInRet,   \* how the last signIn call ended
    signUpPc, signUpRet,
    signOutPc, signOutRet,
    nCalls,      \* calls of public operations so far
    notifications,            \* the snapshot prop of the notification handler
    unreadNotifications,      \* the count computed by the last render
    isNotificationPanelOpen,  \* useState(false)
    forwarded,   \* commands handed to the realtime context, in order
    updateCalls, \* invocations of the onUpdateNotifications prop
    last         \* the turn that led to this state

storeVars == <<user, session, profile, loading>>
initVars  == <<initPc>>
eventVars == <<subscribed, nEvents>>
fetchVars == <<timers, inflight>>
opVars    == <<signInPc, signInLog, signInRet, signUpPc, signUpRet,
               signOutPc, signOutRet, nCalls>>
notifVars == <<notifications, unreadNotifications, isNotificationPanelOpen,
               forwarded, updateCalls>>
authVars  == <<user, session, profile, loading, initPc, subscribed, nEvents,
               timers, inflight, signInPc, signInLog, signInRet, signUpPc,
               signUpRet, signOutPc, signOutRet, nCalls>>
vars == <<user, session, profile, loading, initPc, subscribed, nEvents,
          timers, inflight, signInPc, signInLog, signInRet, signUpPc,
          signUpRet, signOutPc, signOutRet, nCalls, notifications,
          unreadNotifications, isNotificationPanelOpen, forwarded,
          updateCalls, last>>

\* The state the hook returns to its consumers.
View == [user |-> user, session |-> session, profile |-> profile,
         loading |-> loading]

\* Record of a turn: which code ran, on what input, with what backend
\* outcome, which backend requests it issued and which setters it called,
\* in order.
Turn(op, arg, out, reqs, writes) ==
    [op |-> op, arg |-> arg, out |-> out, reqs |-> reqs, writes |-> writes]

\* session?.user ?? null
UserOf(s) == IF s = Null THEN Null ELSE s.user

(* ----------------------------- fetchProfile ---------------------------- *)
\* The Profile built from data[0] (role cast, secret_number || '').
ProfileFromRow(row) ==
    [id |-> row.id,
     role |-> row.role,
     secret_number |-> IF row.secret_number = DbNull THEN ""
                       ELSE row.secret_number]

\* Faulty variant: an empty result leaves the previous Profile in place.
fetchProfileValue_keepsStale(out, data) ==
    IF out = "error" THEN Null
    ELSE IF out = "ok" /\ Len(data) > 0 THEN ProfileFromRow(data[1])
    ELSE profile

\* The value fetchProfile passes to setProfile for a query result.
fetchProfileValue(out, data) ==
    IF out = "error" THEN Null
    ELSE IF out = "ok" /\ Len(data) > 0 THEN ProfileFromRow(data[1])
    ELSE Null

\* Faulty variant: fetchProfile raises Loading again when it starts.
TimerFire_setsLoading ==
    /\ Len(timers) > 0
    /\ LET userId == Head(timers) IN
        /\ timers' = Tail(timers)
        /\ inflight' = [inflight EXCEPT ![userId] = @ + 1]
        /\ last' = Turn("timerFire", userId, "none", {"profileQuery"},
                        <<"loading">>)
    /\ loading' = TRUE
    /\ UNCHANGED <<user, session, profile, initVars, eventVars, opVars,
                   notifVars>>

\* setTimeout callback: fetchProfile runs up to its await of the query.
TimerFire ==
    /\ Len(timers) > 0
    /\ LET userId == Head(timers) IN
        /\ timers' = Tail(timers)
        /\ inflight' = [inflight EXCEPT ![userId] = @ + 1]
        /\ last' = Turn("timerFire", userId, "none", {"profileQuery"}, <<>>)
    /\ UNCHANGED <<storeVars, initVars, eventVars, opVars, notifVars>>

\* Whether a sequence of setter calls contains a call of the named setter.
Calls(writes, setter) == \E i \in 1..Len(writes) : writes[i] = setter

\* Faulty variant: setLoading(false) is the last statement of the try block
\* instead of a finally block, so a raised exception skips it.
fetchProfileWrites_noFinally(out, data) ==
    IF out = "raise" THEN <<"profile">>
    ELSE <<"profile", "loading">>

\* The setters fetchProfile calls once the query has returned, in order:
\* one setProfile in the branch taken, then setLoading in the finally block.
fetchProfileWrites(out, data) ==
    (IF out = "raise" THEN <<"profile">>
     ELSE IF out = "error" THEN <<"profile">>
     ELSE IF Len(data) > 0 THEN <<"profile">>
     ELSE <<"profile">>)
    \o <<"loading">>

\* The query returns: fetchProfile interprets it, then the finally block.
fetchProfileReturn(userId, out, data) ==
    /\ inflight[userId] > 0
    /\ inflight' = [inflight EXCEPT ![userId] = @ - 1]
    /\ LET writes == fetchProfileWrites(out, data) IN
        /\ profile' = IF Calls(writes, "profile")
                      THEN fetchProfileValue(out, data) ELSE profile
        /\ loading' = IF Calls(writes, "loading") THEN FALSE ELSE loading
        /\ last' = Turn("fetchProfileReturn", userId,
                        IF out = "ok" /\ Len(data) = 0 THEN "empty" ELSE out,
                        {}, writes)
    /\ UNCHANGED <<user, session, timers, initVars, eventVars, opVars>>

FetchProfileReturn ==
    \E userId \in UserIds, out \in Outcomes :
        \E data \in (IF out = "ok" THEN DataFor(userId) ELSE {<<>>}) :
            /\ fetchProfileReturn(userId, out, data)
            /\ UNCHANGED notifVars

(* ---------------------------- initializeAuth --------------------------- *)
\* The four setters of the error path and of the catch block.
ClearAuthState ==
    /\ session' = Null
    /\ user' = Null
    /\ profile' = Null
    /\ loading' = FALSE

\* getSession returns a value: { data: { session }, error }.
getSessionReturn(s, out) ==
    /\ initPc = "getSession"
    /\ IF out = "error"
       THEN /\ initPc' = "signOutTry"
            /\ last' = Turn("getSessionReturn", Null, out, {"signOut"}, <<>>)
            /\ UNCHANGED <<storeVars, fetchVars>>
       ELSE IF out = "raise"
       THEN /\ initPc' = "signOutCatch"
            /\ last' = Turn("getSessionReturn", Null, out, {"signOut"}, <<>>)
            /\ UNCHANGED <<storeVars, fetchVars>>
       ELSE /\ initPc' = "done"
            /\ session' = s
            /\ user' = UserOf(s)
            /\ IF UserOf(s) # Null
               THEN /\ timers' = Append(timers, s.user.id)
                    /\ last' = Turn("getSessionReturn", s, out, {},
                                    <<"session", "user">>)
                    /\ UNCHANGED <<profile, loading, inflight>>
               ELSE /\ loading' = FALSE
                    /\ last' = Turn("getSessionReturn", s, out, {},
                                    <<"session", "user", "loading">>)
                    /\ UNCHANGED <<profile, fetchVars>>
    /\ UNCHANGED <<eventVars, opVars>>

GetSessionReturn ==
    \E out \in Outcomes :
        \E s \in (IF out = "ok" THEN Sessions \cup {Null} ELSE {Null}) :
            /\ getSessionReturn(s, out)
            /\ UNCHANGED notifVars

\* The signOut awaited in the error branch of the try block returns.
initSignOutTryReturn(out) ==
    /\ initPc = "signOutTry"
    /\ IF out = "raise"
       THEN /\ initPc' = "signOutCatch"
            /\ last' = Turn("initSignOutReturn", "try", out, {"signOut"},
                            <<>>)
            /\ UNCHANGED storeVars
       ELSE /\ initPc' = "done"
            /\ ClearAuthState
            /\ last' = Turn("initSignOutReturn", "try", out, {},
                            <<"session", "user", "profile", "loading">>)
    /\ UNCHANGED <<fetchVars, eventVars, opVars>>

\* The signOut awaited in the catch block returns.
initSignOutCatchReturn(out) ==
    /\ initPc = "signOutCatch"
    /\ IF out = "raise"
       THEN /\ initPc' = "rejected"
            /\ last' = Turn("initSignOutReturn", "catch", out, {}, <<>>)
            /\ UNCHANGED storeVars
       ELSE /\ initPc' = "done"
            /\ ClearAuthState
            /\ last' = Turn("initSignOutReturn", "catch", out, {},
                            <<"session", "user", "profile", "loading">>)
    /\ UNCHANGED <<fetchVars, eventVars, opVars>>

InitSignOutTryReturn ==
    \E out \in Outcomes : initSignOutTryReturn(out) /\ UNCHANGED notifVars

InitSignOutCatchReturn ==
    \E out \in Outcomes : initSignOutCatchReturn(out) /\ UNCHANGED notifVars

(* ------------------------- onAuthStateChange --------------------------- *)
\* Faulty variant: the callback calls fetchProfile inline, so the profile
\* query is sent while the callback is still executing.
onAuthStateChange_inlineFetch(s) ==
    /\ session' = s
    /\ user' = UserOf(s)
    /\ IF UserOf(s) # Null
       THEN /\ inflight' = [inflight EXCEPT ![s.user.id] = @ + 1]
            /\ last' = Turn("onAuthStateChange", s, "none", {"profileQuery"},
                            <<"session", "user">>)
            /\ UNCHANGED <<profile, loading, timers>>
       ELSE /\ profile' = Null
            /\ loading' = FALSE
            /\ last' = Turn("onAuthStateChange", s, "none", {},
                            <<"session", "user", "profile", "loading">>)
            /\ UNCHANGED fetchVars

\* The callback passed to supabase.auth.onAuthStateChange.
onAuthStateChange(s) ==
    /\ session' = s
    /\ user' = UserOf(s)
    /\ IF UserOf(s) # Null
       THEN /\ timers' = Append(timers, s.user.id)
            /\ last' = Turn("onAuthStateChange", s, "none", {},
                            <<"session", "user">>)
            /\ UNCHANGED <<profile, loading, inflight>>
       ELSE /\ profile' = Null
            /\ loading' = FALSE
            /\ last' = Turn("onAuthStateChange", s, "none", {},
                            <<"session", "user", "profile", "loading">>)
            /\ UNCHANGED fetchVars

\* The Backend Client emits an auth-change event to the live subscription.
AuthEvent ==
    /\ subscribed
    /\ nEvents < MaxEvents
    /\ nEvents' = nEvents + 1
    /\ \E s \in Sessions \cup {Null} : onAuthStateChange(s)
    /\ UNCHANGED <<subscribed, initVars, opVars, notifVars>>

\* Faulty variant: the cleanup also drops the fetches still waiting on
\* their timer.
Unsubscribe_clearsTimers ==
    /\ subscribed
    /\ subscribed' = FALSE
    /\ timers' = <<>>
    /\ last' = Turn("unsubscribe", Null, "none", {}, <<>>)
    /\ UNCHANGED <<storeVars, initVars, nEvents, inflight, opVars,
                   notifVars>>

\* Effect cleanup: subscription.unsubscribe().
Unsubscribe ==
    /\ subscribed
    /\ subscribed' = FALSE
    /\ last' = Turn("unsubscribe", Null, "none", {}, <<>>)
    /\ UNCHANGED <<storeVars, initVars, nEvents, fetchVars, opVars,
                   notifVars>>

(* ------------------------- public operations --------------------------- *)
\* What a call of a public operation hands to its caller: a returned
\* { error } object, or a rejection of the returned promise (threw).
Returned(error) == [threw |-> FALSE, error |-> error]
Threw(exc)      == [threw |-> TRUE, error |-> exc]
NoResult        == [threw |-> FALSE, error |-> "pending"]

\* The { error } field of a Backend Client auth response.
ErrorOf(out) == IF out = "error" THEN "error" ELSE "none"

OpIdle(pc) == pc \in {"idle", "done"}

\* Faulty variant: signIn sends the sign-in request without signing out.
signInCall_noSignOut ==
    /\ OpIdle(signInPc)
    /\ nCalls < MaxCalls
    /\ nCalls' = nCalls + 1
    /\ signInPc' = "awaitSignIn"
    /\ signInLog' = <<"signIn.req">>
    /\ signInRet' = NoResult
    /\ last' = Turn("signInCall", Null, "none", {"signInWithPassword"}, <<>>)
    /\ UNCHANGED <<storeVars, initVars, eventVars, fetchVars, signUpPc,
                   signUpRet, signOutPc, signOutRet>>

\* signIn is called: it runs to its first await, supabase.auth.signOut().
signInCall ==
    /\ OpIdle(signInPc)
    /\ nCalls < MaxCalls
    /\ nCalls' = nCalls + 1
    /\ signInPc' = "awaitSignOut"
    /\ signInLog' = <<"signOut.req">>
    /\ signInRet' = NoResult
    /\ last' = Turn("signInCall", Null, "none", {"signOut"}, <<>>)
    /\ UNCHANGED <<storeVars, initVars, eventVars, fetchVars, signUpPc,
                   signUpRet, signOutPc, signOutRet>>

\* Faulty variant: signIn gives up when the preliminary signOut returns an
\* error value, and hands that error back.
signInSignOutReturn_stopsOnError(out) ==
    /\ signInPc = "awaitSignOut"
    /\ IF out = "raise"
       THEN /\ signInPc' = "done"
            /\ signInLog' = Append(signInLog, "signOut.raise")
            /\ signInRet' = Returned("exception")
            /\ last' = Turn("signInSignOutReturn", Null, out, {}, <<>>)
       ELSE IF out = "error"
       THEN /\ signInPc' = "done"
            /\ signInLog' = Append(signInLog, "signOut.ret")
            /\ signInRet' = Returned("error")
            /\ last' = Turn("signInSignOutReturn", Null, out, {}, <<>>)
       ELSE /\ signInPc' = "awaitSignIn"
            /\ signInLog' = signInLog \o <<"signOut.ret", "signIn.req">>
            /\ signInRet' = signInRet
            /\ last' = Turn("signInSignOutReturn", Null, out,
                            {"signInWithPassword"}, <<>>)
    /\ UNCHANGED <<storeVars, initVars, eventVars, fetchVars, signUpPc,
                   signUpRet, signOutPc, signOutRet, nCalls>>

\* The preliminary signOut of signIn returns; its value is not looked at.
signInSignOutReturn(out) ==
    /\ signInPc = "awaitSignOut"
    /\ IF out = "raise"
       THEN /\ signInPc' = "done"
            /\ signInLog' = Append(signInLog, "signOut.raise")
            /\ signInRet' = Returned("exception")
            /\ last' = Turn("signInSignOutReturn", Null, out, {}, <<>>)
       ELSE /\ signInPc' = "awaitSignIn"
            /\ signInLog' = signInLog \o <<"signOut.ret", "signIn.req">>
            /\ signInRet' = signInRet
            /\ last' = Turn("signInSignOutReturn", Null, out,
                            {"signInWithPassword"}, <<>>)
    /\ UNCHANGED <<storeVars, initVars, eventVars, fetchVars, signUpPc,
                   signUpRet, signOutPc, signOutRet, nCalls>>

\* signInWithPassword returns: return { error }, or the catch block.
signInReturn(out) ==
    /\ signInPc = "awaitSignIn"
    /\ signInPc' = "done"
    /\ signInLog' = Append(signInLog,
                           IF out = "raise" THEN "signIn.raise"
                           ELSE "signIn.ret")
    /\ signInRet' = IF out = "raise" THEN Returned("exception")
                    ELSE Returned(ErrorOf(out))
    /\ last' = Turn("signInReturn", Null, out, {}, <<>>)
    /\ UNCHANGED <<storeVars, initVars, eventVars, fetchVars, signUpPc,
                   signUpRet, signOutPc, signOutRet, nCalls>>

\* signUp is called: it runs to its await of supabase.auth.signUp().
signUpCall ==
    /\ OpIdle(signUpPc)
    /\ nCalls < MaxCalls
    /\ nCalls' = nCalls + 1
    /\ signUpPc' = "awaitSignUp"
    /\ signUpRet' = NoResult
    /\ last' = Turn("signUpCall", Null, "none", {"signUp"}, <<>>)
    /\ UNCHANGED <<storeVars, initVars, eventVars, fetchVars, signInPc,
                   signInLog, signInRet, signOutPc, signOutRet>>

\* supabase.auth.signUp returns; signUp has no try/catch.
signUpReturn(out) ==
    /\ signUpPc = "awaitSignUp"
    /\ signUpPc' = "done"
    /\ signUpRet' = IF out = "raise" THEN Threw("exception")
                    ELSE Returned(ErrorOf(out))
    /\ last' = Turn("signUpReturn", Null, out, {}, <<>>)
    /\ UNCHANGED <<storeVars, initVars, eventVars, fetchVars, signInPc,
                   signInLog, signInRet, signOutPc, signOutRet, nCalls>>

\* signOut is called: it runs to its await of supabase.auth.signOut().
signOutCall ==
    /\ OpIdle(signOutPc)
    /\ nCalls < MaxCalls
    /\ nCalls' = nCalls + 1
    /\ signOutPc' = "awaitSignOut"
    /\ signOutRet' = NoResult
    /\ last' = Turn("signOutCall", Null, "none", {"signOut"}, <<>>)
    /\ UNCHANGED <<storeVars, initVars, eventVars, fetchVars, signInPc,
                   signInLog, signInRet, signUpPc, signUpRet>>

\* Faulty variant: signOut clears the local state itself when it succeeds.
signOutReturn_clearsLocally(out) ==
    /\ signOutPc = "awaitSignOut"
    /\ signOutPc' = "done"
    /\ signOutRet' = IF out = "raise" THEN Threw("exception")
                     ELSE Returned(ErrorOf(out))
    /\ IF out = "ok"
       THEN /\ session' = Null
            /\ user' = Null
            /\ profile' = Null
            /\ UNCHANGED loading
       ELSE UNCHANGED storeVars
    /\ last' = Turn("signOutReturn", Null, out, {}, <<>>)
    /\ UNCHANGED <<initVars, eventVars, fetchVars, signInPc,
                   signInLog, signInRet, signUpPc, signUpRet, nCalls>>

\* supabase.auth.signOut returns; signOut has no try/catch.
signOutReturn(out) ==
    /\ signOutPc = "awaitSignOut"
    /\ signOutPc' = "done"
    /\ signOutRet' = IF out = "raise" THEN Threw("exception")
                     ELSE Returned(ErrorOf(out))
    /\ last' = Turn("signOutReturn", Null, out, {}, <<>>)
    /\ UNCHANGED <<storeVars, initVars, eventVars, fetchVars, signInPc,
                   signInLog, signInRet, signUpPc, signUpRet, nCalls>>

SignInCall == signInCall /\ UNCHANGED notifVars

SignInSignOutReturn ==
    \E out \in Outcomes : signInSignOutReturn(out) /\ UNCHANGED notifVars

SignInReturn ==
    \E out \in Outcomes : signInReturn(out) /\ UNCHANGED notifVars

SignUpCall == signUpCall /\ UNCHANGED notifVars

SignUpReturn ==
    \E out \in Outcomes : signUpReturn(out) /\ UNCHANGED notifVars

SignOutCall == signOutCall /\ UNCHANGED notifVars

SignOutReturn ==
    \E out \in Outcomes : signOutReturn(out) /\ UNCHANGED notifVars

(* ------------------------ notification handler ------------------------ *)
NotifIds == {"n1", "n2"}

\* Notification entries, as far as the handler reads them.
Notifs == [id : NotifIds, read : BOOLEAN]

\* Snapshots the parent can supply: lists of at most MaxNotifs entries.
Snapshots == UNION {[1..n -> Notifs] : n \in 0..MaxNotifs}

IsUnread(n) == ~n.read

\* notifications.filter(n => !n.read).length
unreadCount(ns) == Len(SelectSeq(ns, IsUnread))

\* The parent renders the handler with a new notifications prop.
NewSnapshot ==
    /\ \E ns \in Snapshots :
        /\ notifications' = ns
        /\ unreadNotifications' = unreadCount(ns)
        /\ last' = Turn("newSnapshot", Len(ns), "none", {}, <<>>)
    /\ UNCHANGED <<isNotificationPanelOpen, forwarded, updateCalls, authVars>>

\* setIsNotificationPanelOpen(open): a state change, so the hook renders again.
SetIsNotificationPanelOpen ==
    /\ \E open \in BOOLEAN :
        /\ isNotificationPanelOpen' = open
        /\ last' = Turn("setIsNotificationPanelOpen", open, "none", {}, <<>>)
    /\ unreadNotifications' = unreadCount(notifications)
    /\ UNCHANGED <<notifications, forwarded, updateCalls, authVars>>

\* Faulty variant: the handler marks the entries read locally and pushes the
\* result through onUpdateNotifications.
handleMarkAllAsRead_optimistic ==
    /\ Len(forwarded) < MaxCommands
    /\ forwarded' = Append(forwarded, [cmd |-> "clearAllNotifications"])
    /\ notifications' = [i \in DOMAIN notifications |->
                            [notifications[i] EXCEPT !.read = TRUE]]
    /\ unreadNotifications' = 0
    /\ updateCalls' = updateCalls + 1
    /\ last' = Turn("handleMarkAllAsRead", Null, "none",
                    {"clearAllNotifications"}, <<"notifications">>)
    /\ UNCHANGED <<isNotificationPanelOpen, authVars>>

\* handleMarkAsRead(notificationId): markNotificationAsRead(notificationId).
handleMarkAsRead(notificationId) ==
    /\ Len(forwarded) < MaxCommands
    /\ forwarded' = Append(forwarded, [cmd |-> "markNotificationAsRead",
                                       id |-> notificationId])
    /\ last' = Turn("handleMarkAsRead", notificationId, "none",
                    {"markNotificationAsRead"}, <<>>)
    /\ UNCHANGED <<notifications, unreadNotifications,
                   isNotificationPanelOpen, updateCalls, authVars>>

\* handleMarkAllAsRead(): clearAllNotifications().
handleMarkAllAsRead ==
    /\ Len(forwarded) < MaxCommands
    /\ forwarded' = Append(forwarded, [cmd |-> "clearAllNotifications"])
    /\ last' = Turn("handleMarkAllAsRead", Null, "none",
                    {"clearAllNotifications"}, <<>>)
    /\ UNCHANGED <<notifications, unreadNotifications,
                   isNotificationPanelOpen, updateCalls, authVars>>

HandleMarkAsRead == \E id \in NotifIds : handleMarkAsRead(id)

HandleMarkAllAsRead == handleMarkAllAsRead

(* --------------------------- specification ----------------------------- *)
\* The state after the mount effect has run: the four useState values,
\* initializeAuth suspended at getSession, the subscription installed.
Init ==
    /\ user = Null
    /\ session = Null
    /\ profile = Null
    /\ loading = TRUE
    /\ initPc = "getSession"
    /\ subscribed = TRUE
    /\ nEvents = 0
    /\ timers = <<>>
    /\ inflight = [u \in UserIds |-> 0]
    /\ signInPc = "idle"
    /\ signInLog = <<>>
    /\ signInRet = NoResult
    /\ signUpPc = "idle"
    /\ signUpRet = NoResult
    /\ signOutPc = "idle"
    /\ signOutRet = NoResult
    /\ nCalls = 0
    /\ notifications = <<>>
    /\ unreadNotifications = 0
    /\ isNotificationPanelOpen = FALSE
    /\ forwarded = <<>>
    /\ updateCalls = 0
    /\ last = [op |-> "mount", arg |-> Null, out |-> "none",
               reqs |-> {"getSession"}, writes |-> <<>>]

Next ==
    \/ GetSessionReturn
    \/ InitSignOutTryReturn
    \/ InitSignOutCatchReturn
    \/ AuthEvent
    \/ Unsubscribe
    \/ TimerFire
    \/ FetchProfileReturn
    \/ SignInCall
    \/ SignInSignOutReturn
    \/ SignInReturn
    \/ SignUpCall
    \/ SignUpReturn
    \/ SignOutCall
    \/ SignOutReturn

Spec == Init /\ [][Next]_vars

\* The notification handler on its own: the parent supplies snapshots, the
\* panel issues commands and is opened and closed.
NotifNext ==
    \/ NewSnapshot
    \/ SetIsNotificationPanelOpen
    \/ HandleMarkAsRead
    \/ HandleMarkAllAsRead

NotifSpec == Init /\ [][NotifNext]_vars

\* Scheduling the code relies on: every Backend Client request returns
\* (a value, an error or an exception) and every setTimeout(..., 0)
\* callback runs.  Auth-change events, calls of the public operations and
\* the unmount are up to the environment.
Fairness ==
    /\ WF_vars(GetSessionReturn)
    /\ WF_vars(InitSignOutTryReturn)
    /\ WF_vars(InitSignOutCatchReturn)
    /\ WF_vars(TimerFire)
    /\ WF_vars(FetchProfileReturn)
    /\ WF_vars(SignInSignOutReturn)
    /\ WF_vars(SignInReturn)
    /\ WF_vars(SignUpReturn)
    /\ WF_vars(SignOutReturn)

FairSpec == Spec /\ Fairness

(* ------------------------------- claims -------------------------------- *)
\* C1: in every reachable state, Profile is absent whenever Identity (user)
\* is absent.
C1_ProfileAbsentWithoutIdentity == user = Null => profile = Null

\* C2: in every reachable state, a present Profile comes with a present
\* Identity and Profile.id equals the id of the Identity currently held.
C2_ProfileBelongsToIdentity ==
    profile # Null => (user # Null /\ profile.id = user.id)

\* C3: signIn, signUp and signOut never throw; a call that ended on a
\* Backend Client error value or exception has returned it as its error.
C3_OperationsNeverThrow ==
    /\ ~signInRet.threw /\ ~signUpRet.threw /\ ~signOutRet.threw
    /\ (last.op \in {"signInReturn", "signUpReturn", "signOutReturn"}
        /\ last.out \in {"error", "raise"})
       => LET ret == IF last.op = "signInReturn" THEN signInRet
                     ELSE IF last.op = "signUpReturn" THEN signUpRet
                     ELSE signOutRet
          IN ret.error \in {"error", "exception"}

\* C4: when the initial session retrieval fails, a forced sign-out is
\* requested, and whatever that sign-out's result, initializeAuth ends with
\* Identity absent, Profile absent and Loading = false.
C4_InitFailureEndsUnauthenticated ==
    /\ (last.op = "getSessionReturn" /\ last.out \in {"error", "raise"})
       => ("signOut" \in last.reqs /\ initPc \in {"signOutTry", "signOutCatch"})
    /\ (last.op = "initSignOutReturn"
        /\ initPc \notin {"signOutTry", "signOutCatch"})
       => (user = Null /\ session = Null /\ profile = Null /\ loading = FALSE)

\* C5: processing an auth-change event that carries a session sets Identity
\* to the session's user, resets Profile to absent, sets Loading to true and
\* schedules one profile fetch for that user, all in the same step.
C5_SessionEventResetsProfile ==
    (last.op = "onAuthStateChange" /\ last.arg # Null)
    => /\ user = last.arg.user
       /\ session = last.arg
       /\ profile = Null
       /\ loading = TRUE
       /\ Len(timers) > 0
       /\ timers[Len(timers)] = last.arg.user.id

\* C6: in every call of signIn, the signInWithPassword request is preceded
\* by that call's sign-out request and by the completion of that sign-out.
C6_SignOutBeforeSignIn ==
    \A i \in 1..Len(signInLog) :
        signInLog[i] = "signIn.req"
        => \E j \in 1..Len(signInLog), k \in 1..Len(signInLog) :
              /\ j < k /\ k < i
              /\ signInLog[j] = "signOut.req"
              /\ signInLog[k] = "signOut.ret"

\* A signIn call has sent its sign-in request.
W6_SignInRequested ==
    /\ signInPc = "awaitSignIn"
    /\ \E i \in 1..Len(signInLog) : signInLog[i] = "signIn.req"

\* Total number of profile queries in flight.
InflightCount == inflight["u1"] + inflight["u2"]

\* C7: the auth-change callback and the continuation of the initial session
\* retrieval issue no profile query in their own turn: they leave the set of
\* queries in flight unchanged and only queue a timer; a profile query is
\* started only by a timer turn, which is a later turn.
C7_FetchDeferred ==
    [][/\ (last'.op \in {"onAuthStateChange", "getSessionReturn"})
          => (inflight' = inflight /\ "profileQuery" \notin last'.reqs)
       /\ (last'.op = "onAuthStateChange") => (last'.reqs = {})
       /\ (inflight' # inflight /\ \E u \in UserIds : inflight'[u] > inflight[u])
          => (last'.op = "timerFire" /\ Len(timers) > 0
              /\ inflight'[Head(timers)] = inflight[Head(timers)] + 1)
      ]_vars

\* The callback has returned with its fetch queued and no query sent.
W7_CallbackReturnedFetchQueued ==
    /\ last.op = "onAuthStateChange"
    /\ last.arg # Null
    /\ Len(timers) > 0
    /\ InflightCount = 0

\* The turns that resolve Loading.
ResolvingTurn(t) ==
    \/ t.op = "fetchProfileReturn"
    \/ t.op = "getSessionReturn" /\ t.out = "ok" /\ t.arg = Null
    \/ t.op = "initSignOutReturn" /\ t.out # "raise"
    \/ t.op = "onAuthStateChange" /\ t.arg = Null

\* C8: Loading is true at initialization, turns false only in a resolving
\* turn (a profile fetch completing, a no-session or error outcome), and
\* once false never becomes true again.
C8_LoadingFallsOnce ==
    /\ loading = TRUE
    /\ [][/\ (loading = FALSE => loading' = FALSE)
          /\ (loading = TRUE /\ loading' = FALSE) => ResolvingTurn(last')
         ]_vars

\* Loading has been resolved by a completed fetch and a later session event
\* for another Identity has left it false.
W8_LoadingStaysFalse ==
    /\ loading = FALSE
    /\ last.op = "onAuthStateChange"
    /\ last.arg # Null
    /\ profile # Null
    /\ profile.id # last.arg.user.id

\* C9: under fairness, Loading eventually becomes false after store
\* creation, for every outcome of the initial session retrieval and of the
\* profile query.
C9_LoadingEventuallyFalse == <>(loading = FALSE)

\* C10: a profile query that completes with an error, an exception or zero
\* rows sets Profile to absent and leaves Identity and Session unchanged.
C10_FailedFetchClearsProfile ==
    [][(last'.op = "fetchProfileReturn"
        /\ last'.out \in {"error", "empty", "raise"})
       => (profile' = Null /\ user' = user /\ session' = session)
      ]_vars

\* A query for a held Identity has come back with zero rows.
W10_EmptyFetchCompleted ==
    /\ last.op = "fetchProfileReturn"
    /\ last.out = "empty"
    /\ user # Null
    /\ user.id = last.arg
    /\ profile = Null

\* The turns of the public operations and those of the store's own code.
PublicOps == {"signInCall", "signInSignOutReturn", "signInReturn",
              "signUpCall", "signUpReturn", "signOutCall", "signOutReturn"}
StoreOps  == {"getSessionReturn", "initSignOutReturn", "onAuthStateChange",
              "fetchProfileReturn"}

\* C11: a step of signIn, signUp or signOut leaves (user, session, profile,
\* loading) unchanged; that state changes only in a step of the initial
\* session retrieval, of the auth-change callback or of a profile fetch.
C11_PublicOpsLeaveState ==
    [][/\ (last'.op \in PublicOps) => (storeVars' = storeVars)
       /\ (storeVars' # storeVars) => (last'.op \in StoreOps)
      ]_vars

\* A signOut call has completed successfully while the store still holds
\* the Identity.
W11_SignOutDoneIdentityHeld ==
    /\ last.op = "signOutReturn"
    /\ last.out = "ok"
    /\ signOutRet = Returned("none")
    /\ user # Null
    /\ session # Null

\* Entries of the current snapshot whose read flag is false.
UnreadEntries == {i \in DOMAIN notifications : notifications[i].read = FALSE}

\* C12: the unread count always equals the number of entries of the current
\* snapshot whose read flag is false; mark-one-as-read and mark-all-as-read
\* only forward their command: they leave the snapshot and the count
\* unchanged and never invoke the update callback; the count changes only
\* when a new snapshot is supplied.
C12_UnreadCountFromSnapshot ==
    /\ [](unreadNotifications = Cardinality(UnreadEntries))
    /\ [](updateCalls = 0)
    /\ [][/\ (last'.op \in {"handleMarkAsRead", "handleMarkAllAsRead"})
             => /\ notifications' = notifications
                /\ unreadNotifications' = unreadNotifications
                /\ updateCalls' = updateCalls
                /\ Len(forwarded') = Len(forwarded) + 1
          /\ (unreadNotifications' # unreadNotifications)
             => (last'.op = "newSnapshot")
         ]_vars

\* Mark-all-as-read has been forwarded while unread entries remain.
W12_CommandForwardedCountKept ==
    /\ last.op = "handleMarkAllAsRead"
    /\ Len(forwarded) > 0
    /\ forwarded[Len(forwarded)].cmd = "clearAllNotifications"
    /\ unreadNotifications > 0
    /\ \E i \in DOMAIN notifications : notifications[i].read

\* C13: within one profile fetch, for every outcome, Profile is written
\* before Loading, and Loading = false is written exactly once, as the last
\* write of the fetch.
C13_LoadingWrittenLast ==
    (last.op = "fetchProfileReturn")
    => LET w == last.writes IN
          /\ Len(w) >= 2
          /\ w[Len(w)] = "loading"
          /\ Cardinality({i \in 1..Len(w) : w[i] = "loading"}) = 1
          /\ \E i \in 1..(Len(w) - 1) : w[i] = "profile"
          /\ loading = FALSE

\* A fetch whose query raised has completed.
W13_RaisedFetchCompleted ==
    /\ last.op = "fetchProfileReturn"
    /\ last.out = "raise"
    /\ last.writes = <<"profile", "loading">>
    /\ profile = Null
    /\ loading = FALSE

\* The Profile values a fetch for userId can write.
ResultsFor(userId) == {Null} \cup {ProfileFromRow(row) : row \in RowsFor(userId)}

\* C14: a scheduled profile fetch is never cancelled.  A queued timer can
\* always fire and a sent query can always return, whatever happened since
\* (a newer session event, a session-absent event, the unsubscribe); no
\* other turn removes a queued timer or a query in flight; and the return of
\* the query writes the fetch's Profile result and Loading = false.
C14_FetchNeverCancelled ==
    /\ [](Len(timers) > 0 => ENABLED TimerFire)
    /\ [](\A u \in UserIds :
            inflight[u] > 0
            => \A out \in Outcomes :
                 ENABLED (fetchProfileReturn(u, out, <<>>)
                          /\ UNCHANGED notifVars))
    /\ [][/\ (last'.op \notin {"timerFire", "fetchProfileReturn"})
             => /\ inflight' = inflight
                /\ Len(timers') >= Len(timers)
                /\ SubSeq(timers', 1, Len(timers)) = timers
          /\ (last'.op = "timerFire")
             => /\ Len(timers) > 0
                /\ timers' = Tail(timers)
                /\ inflight' = [inflight EXCEPT ![Head(timers)] = @ + 1]
          /\ (last'.op = "fetchProfileReturn")
             => /\ timers' = timers
                /\ inflight' = [inflight EXCEPT ![last'.arg] = @ - 1]
                /\ Calls(last'.writes, "profile")
                /\ profile' \in ResultsFor(last'.arg)
                /\ loading' = FALSE
         ]_vars

\* A fetch scheduled before the teardown has written its row after it, for
\* an Identity the store no longer holds.
W14_FetchWroteAfterTeardown ==
    /\ last.op = "fetchProfileReturn"
    /\ last.out = "ok"
    /\ subscribed = FALSE
    /\ profile # Null
    /\ profile.id = last.arg
    /\ user = Null
    /\ loading = FALSE

\* Whether the current signIn call's log holds the entry.
Logged(entry) == \E i \in 1..Len(signInLog) : signInLog[i] = entry

\* C15: in signIn the sign-in request is sent if and only if the preliminary
\* sign-out completed without raising: an error value it returns is ignored
\* and sign-in proceeds; an exception it raises ends signIn with that
\* exception as the returned error, and no sign-in request is sent.
C15_SignInIffSignOutReturned ==
    /\ Logged("signIn.req") <=> Logged("signOut.ret")
    /\ (last.op = "signInSignOutReturn" /\ last.out \in {"ok", "error"})
       => /\ signInPc = "awaitSignIn"
          /\ Logged("signIn.req")
          /\ last.reqs = {"signInWithPassword"}
          /\ signInRet = NoResult
    /\ (last.op = "signInSignOutReturn" /\ last.out = "raise")
       => (last.reqs = {} /\ Logged("signOut.raise"))
    /\ Logged("signOut.raise")
       => /\ ~Logged("signIn.req")
          /\ signInPc = "done"
          /\ signInRet = Returned("exception")

\* The preliminary sign-out returned an error value and the sign-in request
\* has been sent all the same.
W15_SignOutErrorIgnored ==
    /\ last.op = "signInSignOutReturn"
    /\ last.out = "error"
    /\ signInPc = "awaitSignIn"
    /\ Logged("signIn.req")

=============================================================================
